---- MODULE Spec2Model ----
(***************************************************************************)
(* Model of the trading execution engine (src/src/trading/trading-engine.js)*)
(* of its risk manager (src/src/trading/risk-manager.js) and of the news   *)
(* strategy (src/src/trading/strategies/news-based-strategy.js).           *)
(*                                                                         *)
(* Six specifications share the variables:                                 *)
(*   RiskSpec      the RiskManager driven directly through its methods;    *)
(*   Spec          the TradingEngine started once, in every configuration  *)
(*                 of risk manager and 'error' listener;                   *)
(*   RestartSpec   the TradingEngine as the application wires it, with     *)
(*                 several start() calls;                                  *)
(*   TickSpec      the TradingEngine as the application wires it, started  *)
(*                 once;                                                   *)
(*   StrategySpec  a NewsBasedStrategy whose evaluate is called directly;  *)
(*   ReconcileSpec processOrders called directly against any history.      *)
(* Every await of the engine is a point where another pending async        *)
(* function may run, so an engine method is one action per stretch of code *)
(* between two awaits that matter for interleaving.                        *)
(***************************************************************************)
EXTENDS Integers, Sequences, FiniteSets, TLC

(***************************************************************************)
(* Bounds of the model.                                                    *)
(***************************************************************************)
MaxDay == 2
MaxTrades == 2
MaxPositions == 2
MaxStarts == 2
MaxSignals == 2
MaxOrders == 2
MaxTime == 1
MaxWatch == 2

(***************************************************************************)
(* Configuration of the risk manager.  The first three are the defaults of *)
(* the RiskManager constructor, the open-position limit is a configured    *)
(* value (config.maxOpenPositions).                                        *)
(***************************************************************************)
maxPositionSize == 1000
maxDailyLoss == 500
maxPortfolioRiskPct == 2
maxOpenPositions == 2
defaultPrice == 100

Symbols == {"AAPL", "TSLA"}
Sides == {"buy", "sell"}
Brokers == <<"b1", "b2">>
BrokerNames == {Brokers[i] : i \in 1..Len(Brokers)}

(***************************************************************************)
(* Positions as the brokers report them: symbol and market value.          *)
(***************************************************************************)
PositionRecs == {[symbol |-> "AAPL", marketValue |-> 500],
                 [symbol |-> "TSLA", marketValue |-> 5000]}
PositionLists == UNION {[1..n -> PositionRecs] : n \in 0..MaxPositions}
(* What the brokers can hold together: the first any list, the others at   *)
(* most one position.  No check looks at the order of a list, so the lists *)
(* are taken in one order only.                                            *)
PositionMaps ==
  {m \in [BrokerNames -> PositionLists] :
     /\ \A i \in 2..Len(Brokers) : Len(m[Brokers[i]]) <= 1
     /\ \A b \in BrokerNames : \A i \in 1..(Len(m[b]) - 1) :
          m[b][i].marketValue <= m[b][i + 1].marketValue}

(* Orders handed to RiskManager.validateOrder; limitPrice 0 is "absent".   *)
(* Their notionals are 10, 100, 1000 (with and without a price) and 1100. *)
RiskOrders ==
  {o \in [symbol : Symbols, qty : {1, 10, 11}, side : Sides, limitPrice : {0, 10, 100}] :
     <<o.qty, o.limitPrice>> \in {<<1, 10>>, <<1, 0>>, <<10, 0>>, <<10, 100>>, <<11, 100>>}}

PnlAmounts == {-500, 100}

VARIABLES
  \* RiskManager
  dailyPnl, dailyTrades, lastResetDate, blacklistedSymbols,
  \* the local calendar date, new Date().toDateString()
  today,
  \* the last direct validateOrder call: its symbol, its result, and what
  \* held when the checks ran
  lastValidate,
  \* whether the daily P&L has been at or below -maxDailyLoss since the
  \* counters were last reset
  stopHit,
  \* TradingEngine
  running, riskManager, orders, positions,
  \* whether an 'error' listener is registered on the engine
  errorListener,
  \* one entry per start() call: where that call, and the execution loop
  \* it launched, stands
  pc, stratIdx, sigLeft,
  \* the (broker, orderId) pairs the brokers returned from placeOrder
  issued,
  \* the broker calls of the step just taken: for a placeOrder call what the
  \* Risk Gate said about its signal ("none": no such call), and the order
  \* ids cancelOrder was called for
  placeGate, lastSweep,
  \* what validateSignal made of the signal of the step just taken ("none":
  \* no signal was validated)
  lastGate,
  \* what else the step just taken did: the events it emitted, what the
  \* brokers answered to getPositions, and for each order of the registry
  \* what orderHistory.find gave
  emitted, fetched, found,
  \* NewsBasedStrategy: its fields, the clock (Date.now()), and the list its
  \* last evaluate call returned
  activePositions, config, watchlist, now, returned

riskVars == <<dailyPnl, dailyTrades, lastResetDate, blacklistedSymbols>>
riskObs == <<today, lastValidate, stopHit>>
engineVars == <<running, riskManager, orders, positions, errorListener, pc, stratIdx,
                sigLeft, issued, placeGate, lastSweep, lastGate, emitted, fetched, found>>
strategyVars == <<activePositions, config, watchlist, now, returned>>
vars == <<riskVars, riskObs, engineVars, strategyVars>>

Abs(x) == IF x < 0 THEN -x ELSE x

RECURSIVE SumValues(_)
SumValues(ps) ==
  IF ps = <<>> THEN 0 ELSE Abs(Head(ps).marketValue) + SumValues(Tail(ps))

SelectSeq2(ps, sym) == SelectSeq(ps, LAMBDA p : p.symbol = sym)

(* flattenPositions: the lists of all brokers, one after the other. *)
RECURSIVE flattenFrom(_, _)
flattenFrom(positionsMap, i) ==
  IF i > Len(Brokers) THEN <<>>
  ELSE positionsMap[Brokers[i]] \o flattenFrom(positionsMap, i + 1)

flattenPositions(positionsMap) == flattenFrom(positionsMap, 1)

(* order.qty * (order.limitPrice || 100) *)
orderValue(order) ==
  order.qty * (IF order.limitPrice # 0 THEN order.limitPrice ELSE defaultPrice)

(* orderValue / total > maxPortfolioRisk, with maxPortfolioRisk = 2/100;   *)
(* the quotient of small integers is compared exactly.                     *)
validatePortfolioRisk(order, allPositions) ==
  LET totalPortfolioValue == SumValues(allPositions) IN
  IF totalPortfolioValue = 0 THEN TRUE
  ELSE ~(orderValue(order) * 100 > maxPortfolioRiskPct * totalPortfolioValue)

validatePositionConcentration(order, allPositions) ==
  LET totalSymbolValue == SumValues(SelectSeq2(allPositions, order.symbol)) IN
  ~(totalSymbolValue + orderValue(order) > maxPositionSize)

(* Counters that a new date does not reset. *)
pnlNeverReset == dailyPnl

(* The counters after resetDailyCountersIfNeeded. *)
resetNeeded == lastResetDate # today
pnlAfterReset == IF resetNeeded THEN 0 ELSE dailyPnl
tradesAfterReset == IF resetNeeded THEN 0 ELSE dailyTrades

(* validateOrder without its blacklist check. *)
validateOrderReasonNoBlacklist(order, positionsMap, blacklist, pnl) ==
  LET allPositions == flattenPositions(positionsMap) IN
  IF pnl <= -maxDailyLoss THEN "daily_loss"
  ELSE IF orderValue(order) > maxPositionSize THEN "position_size"
  ELSE IF Len(allPositions) >= maxOpenPositions /\ order.side = "buy" THEN "open_positions"
  ELSE IF ~validatePortfolioRisk(order, allPositions) THEN "portfolio_risk"
  ELSE IF ~validatePositionConcentration(order, allPositions) THEN "concentration"
  ELSE ""

(* validateOrder with the position-size check after the open-position     *)
(* check.                                                                  *)
validateOrderReasonSizeLate(order, positionsMap, blacklist, pnl) ==
  LET allPositions == flattenPositions(positionsMap) IN
  IF order.symbol \in blacklist THEN "blacklisted"
  ELSE IF pnl <= -maxDailyLoss THEN "daily_loss"
  ELSE IF Len(allPositions) >= maxOpenPositions /\ order.side = "buy" THEN "open_positions"
  ELSE IF orderValue(order) > maxPositionSize THEN "position_size"
  ELSE IF ~validatePortfolioRisk(order, allPositions) THEN "portfolio_risk"
  ELSE IF ~validatePositionConcentration(order, allPositions) THEN "concentration"
  ELSE ""

(* validateOrder rejecting a notional equal to maxPositionSize. *)
validateOrderReasonSizeStrict(order, positionsMap, blacklist, pnl) ==
  LET allPositions == flattenPositions(positionsMap) IN
  IF order.symbol \in blacklist THEN "blacklisted"
  ELSE IF pnl <= -maxDailyLoss THEN "daily_loss"
  ELSE IF orderValue(order) >= maxPositionSize THEN "position_size"
  ELSE IF Len(allPositions) >= maxOpenPositions /\ order.side = "buy" THEN "open_positions"
  ELSE IF ~validatePortfolioRisk(order, allPositions) THEN "portfolio_risk"
  ELSE IF ~validatePositionConcentration(order, allPositions) THEN "concentration"
  ELSE ""

(* validateOrder with an open-position check that does not look at the     *)
(* side.                                                                   *)
validateOrderReasonAnySide(order, positionsMap, blacklist, pnl) ==
  LET allPositions == flattenPositions(positionsMap) IN
  IF order.symbol \in blacklist THEN "blacklisted"
  ELSE IF pnl <= -maxDailyLoss THEN "daily_loss"
  ELSE IF orderValue(order) > maxPositionSize THEN "position_size"
  ELSE IF Len(allPositions) >= maxOpenPositions THEN "open_positions"
  ELSE IF ~validatePortfolioRisk(order, allPositions) THEN "portfolio_risk"
  ELSE IF ~validatePositionConcentration(order, allPositions) THEN "concentration"
  ELSE ""

(* The checks of validateOrder in their order: the reason of the first one *)
(* that rejects, "" when the order is accepted.                            *)
validateOrderReason(order, positionsMap, blacklist, pnl) ==
  LET allPositions == flattenPositions(positionsMap) IN
  IF order.symbol \in blacklist THEN "blacklisted"
  ELSE IF pnl <= -maxDailyLoss THEN "daily_loss"
  ELSE IF orderValue(order) > maxPositionSize THEN "position_size"
  ELSE IF Len(allPositions) >= maxOpenPositions /\ order.side = "buy" THEN "open_positions"
  ELSE IF ~validatePortfolioRisk(order, allPositions) THEN "portfolio_risk"
  ELSE IF ~validatePositionConcentration(order, allPositions) THEN "concentration"
  ELSE ""

(* resetDailyCountersIfNeeded, and what it means for the daily stop. *)
resetDailyCountersIfNeeded ==
  /\ dailyPnl' = pnlAfterReset
  /\ dailyTrades' = tradesAfterReset
  /\ lastResetDate' = today
  /\ stopHit' = ((IF resetNeeded THEN FALSE ELSE stopHit) \/ pnlAfterReset <= -maxDailyLoss)

(* validateOrder(order, positions): the counters are reset first if the    *)
(* date changed, then the checks run on the counters after the reset.      *)
validateOrder(order, positionsMap) ==
  validateOrderReason(order, positionsMap, blacklistedSymbols, pnlAfterReset) = ""

updateDailyPnl(pnl) ==
  /\ tradesAfterReset < MaxTrades
  /\ dailyPnl' = pnlAfterReset + pnl
  /\ dailyTrades' = tradesAfterReset + 1
  /\ lastResetDate' = today
  /\ stopHit' = ((IF resetNeeded THEN FALSE ELSE stopHit) \/ pnlAfterReset + pnl <= -maxDailyLoss)
  /\ UNCHANGED <<blacklistedSymbols, lastValidate>>

addToBlacklist(symbol) ==
  /\ symbol \notin blacklistedSymbols
  /\ blacklistedSymbols' = blacklistedSymbols \cup {symbol}
  /\ UNCHANGED <<dailyPnl, dailyTrades, lastResetDate, lastValidate, stopHit>>

removeFromBlacklist(symbol) ==
  /\ symbol \in blacklistedSymbols
  /\ blacklistedSymbols' = blacklistedSymbols \ {symbol}
  /\ UNCHANGED <<dailyPnl, dailyTrades, lastResetDate, lastValidate, stopHit>>

(* The calendar date changes (midnight passes). *)
DateChange ==
  /\ today < MaxDay
  /\ today' = today + 1
  /\ UNCHANGED <<riskVars, lastValidate, stopHit, engineVars, strategyVars>>

RiskManagerInit ==
  /\ dailyPnl = 0
  /\ dailyTrades = 0
  /\ today = 1
  /\ lastResetDate = 1
  /\ lastValidate = [symbol |-> "", result |-> FALSE, reason |-> "",
                     blacklisted |-> FALSE, stopHit |-> FALSE]
  /\ stopHit = FALSE

(* A caller of the RiskManager validates an order. *)
RiskValidate ==
  \E order \in RiskOrders : \E positionsMap \in PositionMaps :
    /\ resetDailyCountersIfNeeded
    /\ lastValidate' = [symbol |-> order.symbol,
                        result |-> validateOrder(order, positionsMap),
                        reason |-> validateOrderReason(order, positionsMap, blacklistedSymbols,
                                                       pnlAfterReset),
                        blacklisted |-> (order.symbol \in blacklistedSymbols),
                        stopHit |-> stopHit']
    /\ UNCHANGED <<blacklistedSymbols, today, engineVars, strategyVars>>

RiskUpdate == \E pnl \in PnlAmounts : updateDailyPnl(pnl) /\ UNCHANGED <<today, engineVars, strategyVars>>

RiskAdd == \E s \in Symbols : addToBlacklist(s) /\ UNCHANGED <<today, engineVars, strategyVars>>

RiskRemove == \E s \in Symbols : removeFromBlacklist(s) /\ UNCHANGED <<today, engineVars, strategyVars>>

(***************************************************************************)
(* TradingEngine                                                           *)
(***************************************************************************)
Strategies == <<"s1", "s2">>
Slots == 1..MaxStarts
OrderIds == 1..MaxOrders

(* Order statuses.  "submitted" stands for what a broker answers before    *)
(* the order is "new" (Alpaca: accepted, pending_new).                     *)
OpenStatuses == {"submitted", "new", "partially_filled"}
TerminalStatuses == {"filled", "canceled", "rejected"}
Statuses == OpenStatuses \cup TerminalStatuses

(* The statuses a broker can report for an order it last reported as s. *)
LaterStatuses(s) ==
  CASE s = "submitted" -> Statuses
    [] s = "new" -> {"new", "partially_filled", "filled", "canceled"}
    [] s = "partially_filled" -> {"partially_filled", "filled", "canceled"}
    [] OTHER -> {s}

(* Signals as strategies return them; "" and 0 are a missing field.  The   *)
(* signals with a missing field are all treated alike: one without symbol, *)
(* one without quantity and one without both stand for them; so are the    *)
(* signals with a limit price, for which one buy stands.                   *)
Signals ==
  {s \in [symbol : Symbols \cup {""}, action : Sides, quantity : {0, 10},
          preferredBroker : {"", "b2"}, limitPrice : {0, 200}] :
     /\ (s.symbol = "" \/ s.quantity = 0) =>
          (s.symbol \in {"", "AAPL"} /\ s.action = "buy" /\ s.preferredBroker = ""
             /\ s.limitPrice = 0)
     /\ s.limitPrice # 0 =>
          (s.symbol = "AAPL" /\ s.action = "buy" /\ s.preferredBroker = "")}

(* What getPositions of a broker can return. *)
BrokerPositionLists == {<<>>, <<[symbol |-> "AAPL", marketValue |-> 500]>>}

(* The phases of a tick, in which an execution loop awaits something. *)
TickPcs == {"updatePositions", "evaluate", "processSignals", "processOrders"}
LoopPcs == TickPcs \cup {"sleep"}

(* while (this.running): the loop starts its next tick or returns. *)
whileRunning(isRunning) == IF isRunning THEN "updatePositions" ELSE "done"

(* selectBroker(signal) *)
selectBroker(preferredBroker) ==
  IF preferredBroker # "" /\ preferredBroker \in BrokerNames THEN preferredBroker
  ELSE Brokers[1]

(* The basic validation of validateSignal. *)
wellFormed(signal) == signal.symbol # "" /\ signal.action # "" /\ signal.quantity # 0

(* The order validateSignal hands to the Risk Gate: no price. *)
riskOrder(signal) ==
  [symbol |-> signal.symbol, qty |-> signal.quantity, side |-> signal.action, limitPrice |-> 0]

(* validateSignal(signal): "invalid" and "rejected" return null,           *)
(* "accepted" and "skipped" (no risk manager set) return the signal.       *)
validateSignal(signal) ==
  IF ~wellFormed(signal) THEN "invalid"
  ELSE IF riskManager
    THEN IF validateOrder(riskOrder(signal), positions) THEN "accepted" ELSE "rejected"
    ELSE "skipped"

(* processSignals over a list of signals: the notional of the buy orders   *)
(* for a symbol that it hands to executeSignal with the approval of the    *)
(* Risk Gate, each signal being validated against this.positions, which    *)
(* no step of processSignals writes.                                       *)
RECURSIVE acceptedNotional(_, _)
acceptedNotional(signals, symbol) ==
  IF signals = <<>> THEN 0
  ELSE LET signal == Head(signals) IN
       (IF signal.symbol = symbol /\ signal.action = "buy"
             /\ validateSignal(signal) = "accepted"
        THEN orderValue(riskOrder(signal))
        ELSE 0) + acceptedNotional(Tail(signals), symbol)

engineRiskUnchanged == UNCHANGED <<riskVars, riskObs>>

(* An event the engine emits: its name and, where it has one, the order id *)
(* or the strategy name of its payload.                                    *)
Event(event, id, name) == [event |-> event, id |-> id, name |-> name]

(* A step that calls neither placeOrder nor cancelOrder. *)
noBrokerCalls == placeGate' = "none" /\ lastSweep' = {}

(* A step that validates no signal. *)
noValidation == lastGate' = "none"

(* A step that emits no event. *)
noEvents == emitted' = {}

(* A step outside updatePositions and outside processOrders, and one that  *)
(* does not touch the strategy.                                            *)
noRefresh == fetched' = {}
noReconciliation == found' = <<>>
strategyUnchanged == UNCHANGED strategyVars

(* The engine after its construction.  The configuration a run explores:  *)
(* whether an 'error' listener is registered, whether setRiskManager has   *)
(* been called already, and how many start() calls will be made in all     *)
(* (the slots beyond are "unused").                                        *)
EngineInit(listeners, riskManagers, starts) ==
  /\ running = FALSE
  /\ riskManager \in riskManagers
  /\ orders = <<>>
  /\ positions = [b \in BrokerNames |-> <<>>]
  /\ errorListener \in listeners
  /\ pc = [l \in Slots |-> IF l <= starts THEN "idle" ELSE "unused"]
  /\ stratIdx = [l \in Slots |-> 0]
  /\ sigLeft = [l \in Slots |-> 0]
  /\ issued = {}
  /\ placeGate = "none"
  /\ lastSweep = {}
  /\ lastGate = "none"
  /\ emitted = {}
  /\ fetched = {}
  /\ found = <<>>

setRiskManager ==
  /\ ~riskManager
  /\ riskManager' = TRUE
  /\ UNCHANGED <<running, orders, positions, errorListener, pc, stratIdx, sigLeft, issued>>
  /\ noBrokerCalls /\ noEvents /\ noRefresh /\ noReconciliation
  /\ noValidation /\ engineRiskUnchanged /\ strategyUnchanged

(* The start() calls take the slots in order. *)
nextSlot(l) == pc[l] = "idle" /\ \A k \in Slots : k < l => pc[k] # "idle"

(* start() on a running engine that goes on to authenticate instead of     *)
(* throwing.                                                               *)
startRunningNoThrow(l) ==
  /\ running
  /\ pc' = [pc EXCEPT ![l] = "auth"]
  /\ UNCHANGED running

(* start() on a running engine: throws 'Trading engine is already running'. *)
startRunning(l) ==
  /\ running
  /\ pc' = [pc EXCEPT ![l] = "rejected"]
  /\ UNCHANGED running

(* start(): throws if the engine is running, else sets running and awaits  *)
(* the authentication of the brokers.                                      *)
start(l) ==
  /\ nextSlot(l)
  /\ \/ startRunning(l)
     \/ /\ ~running
        /\ running' = TRUE
        /\ pc' = [pc EXCEPT ![l] = "auth"]
  /\ UNCHANGED <<riskManager, orders, positions, errorListener, stratIdx, sigLeft, issued>>
  /\ noBrokerCalls /\ noEvents /\ noRefresh /\ noReconciliation
  /\ noValidation /\ engineRiskUnchanged /\ strategyUnchanged

(* start() after the brokers answered: a failed authentication is thrown   *)
(* on; else executionLoop() is called, which runs up to its first await,   *)
(* and 'started' is emitted.                                               *)
authenticated(l) ==
  /\ pc[l] = "auth"
  /\ \/ pc' = [pc EXCEPT ![l] = "failed"] /\ noEvents
     \/ /\ pc' = [pc EXCEPT ![l] = whileRunning(running)]
        /\ emitted' = {Event("started", 0, "")}
  /\ UNCHANGED <<running, riskManager, orders, positions, errorListener, stratIdx, sigLeft,
                 issued>>
  /\ noBrokerCalls /\ noRefresh /\ noReconciliation
  /\ noValidation /\ engineRiskUnchanged /\ strategyUnchanged

(* cancelAllOrders: the ids cancelOrder is called for. *)
cancelAllOrders == {id \in DOMAIN orders : orders[id].status \in {"new", "partially_filled"}}

(* stop(): returns at once if the engine is not running (no change of      *)
(* state); else clears running and calls cancelOrder for the open orders,  *)
(* each failure being caught on its own promise, and emits 'stopped'.      *)
stop ==
  /\ running
  /\ running' = FALSE
  /\ lastSweep' = cancelAllOrders
  /\ emitted' = {Event("stopped", 0, "")}
  /\ UNCHANGED <<riskManager, orders, positions, errorListener, pc, stratIdx, sigLeft, issued>>
  /\ placeGate' = "none" /\ noRefresh /\ noReconciliation
  /\ noValidation /\ engineRiskUnchanged /\ strategyUnchanged

(* What getPositions of a broker does: it returns a list or throws.  The   *)
(* account at the first broker holds the positions, the accounts at the    *)
(* others are empty.                                                       *)
Answers(b) ==
  {[ok |-> TRUE, positions |-> ps] :
     ps \in IF b = Brokers[1] THEN BrokerPositionLists ELSE {<<>>}}
    \cup {[ok |-> FALSE, positions |-> <<>>]}

(* A refresh with a failure that clears what is stored. *)
refreshedClearing(stored, answer) == IF answer.ok THEN answer.positions ELSE <<>>

(* A refresh with a list that is added to what is stored. *)
refreshedMerging(stored, answer) == IF answer.ok THEN answer.positions \o stored ELSE stored

(* One broker of updatePositions: this.positions.set(brokerName, positions) *)
(* when getPositions returned, the catch (which only logs) when it threw.  *)
refreshed(stored, answer) == IF answer.ok THEN answer.positions ELSE stored

(* updatePositions: each broker answers with its positions or fails; a     *)
(* failure keeps what is stored.  executeStrategies then gathers the       *)
(* market data and turns to the first strategy.                            *)
updatePositions(l) ==
  /\ pc[l] = "updatePositions"
  /\ \E answer \in [BrokerNames -> UNION {Answers(b) : b \in BrokerNames}] :
       /\ \A b \in BrokerNames : answer[b] \in Answers(b)
       /\ positions' = [b \in BrokerNames |-> refreshed(positions[b], answer[b])]
       /\ fetched' = {[broker |-> b, ok |-> answer[b].ok, positions |-> answer[b].positions] :
                        b \in BrokerNames}
  /\ pc' = [pc EXCEPT ![l] = "evaluate"]
  /\ stratIdx' = [stratIdx EXCEPT ![l] = 1]
  /\ UNCHANGED <<running, riskManager, orders, errorListener, sigLeft, issued>>
  /\ noBrokerCalls /\ noEvents /\ noReconciliation
  /\ noValidation /\ engineRiskUnchanged /\ strategyUnchanged

(* What follows the strategy at stratIdx[l]. *)
afterStrategy(l) ==
  IF stratIdx[l] < Len(Strategies)
  THEN /\ pc' = [pc EXCEPT ![l] = "evaluate"]
       /\ stratIdx' = [stratIdx EXCEPT ![l] = @ + 1]
  ELSE /\ pc' = [pc EXCEPT ![l] = "processOrders"]
       /\ stratIdx' = [stratIdx EXCEPT ![l] = 0]

(* A catch around the for loop of executeStrategies: the strategies after  *)
(* the one that threw are not evaluated.                                   *)
strategyThrewAborting(l) ==
  /\ emitted' = {Event("strategy_error", 0, Strategies[stratIdx[l]])}
  /\ pc' = [pc EXCEPT ![l] = "processOrders"]
  /\ stratIdx' = [stratIdx EXCEPT ![l] = 0]

(* The catch of executeStrategies: 'strategy_error' is emitted with the    *)
(* name of the strategy, and the for loop goes on.                         *)
strategyThrew(l) ==
  /\ emitted' = {Event("strategy_error", 0, Strategies[stratIdx[l]])}
  /\ afterStrategy(l)

(* executeStrategies, one strategy: evaluate (or processSignals, handed    *)
(* something that is no list) throws; or the strategy is disabled or       *)
(* returns no signal; or it returns n signals.                             *)
evaluate(l) ==
  /\ pc[l] = "evaluate"
  /\ \/ /\ strategyThrew(l)
        /\ UNCHANGED sigLeft
     \/ /\ afterStrategy(l)
        /\ noEvents
        /\ UNCHANGED sigLeft
     \/ \E n \in 1..MaxSignals :
          /\ sigLeft' = [sigLeft EXCEPT ![l] = n]
          /\ pc' = [pc EXCEPT ![l] = "processSignals"]
          /\ noEvents
          /\ UNCHANGED stratIdx
  /\ UNCHANGED <<running, riskManager, orders, positions, errorListener, issued>>
  /\ noBrokerCalls /\ noRefresh /\ noReconciliation
  /\ noValidation /\ engineRiskUnchanged /\ strategyUnchanged

(* An executeSignal that emits order_placed for an order it has not        *)
(* recorded.                                                               *)
executeSignalUnrecorded(signal, gate) ==
  /\ placeGate' = gate
  /\ UNCHANGED <<orders, issued>>
  /\ \/ emitted' = {Event("order_failed", 0, "")}
     \/ \E id \in OrderIds : emitted' = {Event("order_placed", id, "")}

(* executeSignal(signal): placeOrder throws (order_failed), or the broker  *)
(* answers with an id of its own and a status, and the order is recorded   *)
(* under that id.                                                          *)
executeSignal(signal, gate) ==
  LET broker == selectBroker(signal.preferredBroker) IN
  /\ placeGate' = gate
  /\ \/ /\ UNCHANGED <<orders, issued>>
        /\ emitted' = {Event("order_failed", 0, "")}
     \/ /\ Cardinality(issued) < MaxOrders
        /\ \E id \in OrderIds : \E status \in {"submitted", "new"} :
             /\ <<broker, id>> \notin issued
             /\ issued' = issued \cup {<<broker, id>>}
             /\ orders' = [i \in DOMAIN orders \cup {id} |->
                             IF i = id
                             THEN [status |-> status]
                             ELSE orders[i]]
             /\ emitted' = {Event("order_placed", id, "")}

(* A for loop over the signals that a placeOrder failure ends. *)
signalsLeftAborting(n, thrown) == IF thrown THEN 0 ELSE n - 1

(* for (const signal of signals): how many of n signals are still to be    *)
(* processed after one of them, whether its placeOrder call threw or not.  *)
signalsLeft(n, thrown) == n - 1

(* A processSignals that executes a malformed signal. *)
submitsInvalid(gate) == gate \in {"accepted", "skipped", "invalid"}

(* A processSignals that executes what the Risk Gate rejected. *)
submitsRejected(gate) == gate \in {"accepted", "skipped", "rejected"}

(* if (validatedSignal): validateSignal returned the signal, not null. *)
submits(gate) == gate \in {"accepted", "skipped"}

(* The body of the loop of processSignals for a signal: validateSignal,    *)
(* then executeSignal if the signal came back.                             *)
handleSignal(signal) ==
  LET gate == validateSignal(signal) IN
  /\ lastGate' = gate
  /\ IF wellFormed(signal) /\ riskManager
     THEN resetDailyCountersIfNeeded /\ UNCHANGED <<blacklistedSymbols, today, lastValidate>>
     ELSE engineRiskUnchanged
  /\ IF submits(gate)
     THEN executeSignal(signal, gate)
     ELSE UNCHANGED <<orders, issued>> /\ placeGate' = "none" /\ noEvents

(* processSignals, one signal: validateSignal, then executeSignal if the   *)
(* signal came back; then the next signal of the list, if any.             *)
processSignal(l) ==
  /\ pc[l] = "processSignals"
  /\ \E signal \in Signals : handleSignal(signal)
  /\ LET thrown == Event("order_failed", 0, "") \in emitted'
         left == signalsLeft(sigLeft[l], thrown) IN
       /\ sigLeft' = [sigLeft EXCEPT ![l] = left]
       /\ IF left = 0 THEN afterStrategy(l) ELSE UNCHANGED <<pc, stratIdx>>
  /\ lastSweep' = {}
  /\ noRefresh /\ noReconciliation /\ strategyUnchanged
  /\ UNCHANGED <<running, riskManager, positions, errorListener>>

(* What orderHistory.find(o => o.orderId === orderId) gives for an order:  *)
(* the status of the order found, or "absent" when the history lacks the   *)
(* order (or getOrderHistory threw, which the catch only logs).            *)
Lookups == Statuses \cup {"absent"}

(* if (currentOrder && currentOrder.status !== orderInfo.status) *)
orderUpdated(orderInfo, currentOrder) ==
  currentOrder # "absent" /\ currentOrder # orderInfo.status

(* A reconciliation that does not write to the registry. *)
reconciledOrderUnsaved(orderInfo, currentOrder) == orderInfo

(* A reconciliation that takes an order the history lacks for canceled. *)
reconciledOrderAbsentCanceled(orderInfo, currentOrder) ==
  IF currentOrder = "absent" THEN [orderInfo EXCEPT !.status = "canceled"]
  ELSE [orderInfo EXCEPT !.status = currentOrder]

(* The registry entry after this.orders.set(orderId, { ...orderInfo,       *)
(* ...currentOrder }) under that condition.                                *)
reconciledOrder(orderInfo, currentOrder) ==
  IF orderUpdated(orderInfo, currentOrder)
  THEN [orderInfo EXCEPT !.status = currentOrder]
  ELSE orderInfo

(* The for loop of processOrders over a registry: the registry after it,   *)
(* and the orders 'order_updated' is emitted for.                          *)
reconciledRegistry(registry, history) ==
  [id \in DOMAIN registry |-> reconciledOrder(registry[id], history[id])]

updatedOrders(registry, history) ==
  {id \in DOMAIN registry : orderUpdated(registry[id], history[id])}

(* The body of processOrders, history[id] being what the lookup of order   *)
(* id gives: a status that differs is taken over and 'order_updated' is    *)
(* emitted for the order; else the order is left alone.                    *)
reconcile(history) ==
  /\ orders' = reconciledRegistry(orders, history)
  /\ emitted' = {Event("order_updated", id, "") : id \in updatedOrders(orders, history)}
  /\ found' = history

(* processOrders in a tick, with brokers that report for an order a status *)
(* it can have reached.                                                    *)
processOrders(l) ==
  /\ pc[l] = "processOrders"
  /\ \E history \in [DOMAIN orders -> Lookups] :
       /\ \A id \in DOMAIN orders :
            history[id] = "absent" \/ history[id] \in LaterStatuses(orders[id].status)
       /\ reconcile(history)
  /\ pc' = [pc EXCEPT ![l] = "sleep"]
  /\ UNCHANGED <<running, riskManager, positions, errorListener, stratIdx, sigLeft, issued>>
  /\ noBrokerCalls /\ noRefresh
  /\ noValidation /\ engineRiskUnchanged /\ strategyUnchanged

(* The timer of the loop fires: the while condition is tested again. *)
wake(l) ==
  /\ pc[l] = "sleep"
  /\ pc' = [pc EXCEPT ![l] = whileRunning(running)]
  /\ UNCHANGED <<running, riskManager, orders, positions, errorListener, stratIdx, sigLeft,
                 issued>>
  /\ noBrokerCalls /\ noEvents /\ noRefresh /\ noReconciliation
  /\ noValidation /\ engineRiskUnchanged /\ strategyUnchanged

(* catch (error) of executionLoop: emit('error', error) calls the          *)
(* listener, and throws the error itself when there is none, which ends    *)
(* the loop; else the while condition is tested again, without the sleep.  *)
catchError(l) ==
  IF errorListener
  THEN pc' = [pc EXCEPT ![l] = whileRunning(running)]
  ELSE pc' = [pc EXCEPT ![l] = "crashed"]

(* An error escapes a phase of the tick: thrown by a listener of an event  *)
(* emitted in a catch block, or by the catch block itself.                 *)
tickError(l) ==
  /\ pc[l] \in TickPcs
  /\ catchError(l)
  /\ emitted' = IF errorListener THEN {Event("error", 0, "")} ELSE {}
  /\ stratIdx' = [stratIdx EXCEPT ![l] = 0]
  /\ sigLeft' = [sigLeft EXCEPT ![l] = 0]
  /\ UNCHANGED <<running, riskManager, orders, positions, errorListener, issued>>
  /\ noBrokerCalls /\ noRefresh /\ noReconciliation
  /\ noValidation /\ engineRiskUnchanged /\ strategyUnchanged

(* getPositions(brokerName): this.positions.get(brokerName) || [] is the   *)
(* stored array itself when the broker has one (alias), a new empty array  *)
(* else.                                                                   *)
getPositions(brokerName) ==
  [alias |-> positions[brokerName] # <<>>, value |-> positions[brokerName]]

(* getOrders(): Array.from(this.orders.values()) is a new array of the     *)
(* stored order objects themselves.                                        *)
getOrders == [alias |-> TRUE, value |-> orders]

(* A caller of getPositions(brokerName) removes the last element of the    *)
(* array it got (pop): the stored list changes when the array is the       *)
(* stored one.                                                             *)
callerPops ==
  /\ \E b \in BrokerNames :
       LET got == getPositions(b) IN
       /\ got.value # <<>>
       /\ positions' = IF got.alias
                       THEN [positions EXCEPT ![b] = SubSeq(got.value, 1, Len(got.value) - 1)]
                       ELSE positions
  /\ UNCHANGED <<running, riskManager, orders, errorListener, pc, stratIdx, sigLeft, issued>>
  /\ noBrokerCalls /\ noEvents /\ noRefresh /\ noReconciliation
  /\ noValidation /\ engineRiskUnchanged /\ strategyUnchanged

(* A caller of getOrders() assigns to the status of an element of the      *)
(* array it got: the stored order changes when the element is the stored   *)
(* object.                                                                 *)
callerEdits ==
  /\ \E id \in DOMAIN getOrders.value : \E status \in Statuses :
       orders' = IF getOrders.alias
                 THEN [orders EXCEPT ![id] = [@ EXCEPT !.status = status]]
                 ELSE orders
  /\ UNCHANGED <<running, riskManager, positions, errorListener, pc, stratIdx, sigLeft, issued>>
  /\ noBrokerCalls /\ noEvents /\ noRefresh /\ noReconciliation
  /\ noValidation /\ engineRiskUnchanged /\ strategyUnchanged

(***************************************************************************)
(* NewsBasedStrategy.  Sentiment scores and the sentiment threshold are in *)
(* tenths (6 is 0.6), times and the holding period in hours, prices in     *)
(* cents (285 is 2.85).                                                    *)
(***************************************************************************)
buzzThreshold == 50
positionSize == 100
stopLossPct == 5
takeProfitPct == 10

(* The defaults of the constructor: one hour, 0.6. *)
defaultConfig == [holdingPeriod |-> 1, sentimentThreshold |-> 6]
Configs == [holdingPeriod : {0, 1}, sentimentThreshold : {0, 6}]

(* config.watchlist: any list of symbols, repetitions included. *)
Watchlists == UNION {[1..n -> Symbols] : n \in 0..MaxWatch}

(* latestData.summary[symbol]; present is FALSE when there is none. *)
NoAnalysis == [present |-> FALSE, sentimentScore |-> 0, buzzScore |-> 0, newsMentions |-> 0]
Analyses ==
  {a \in [present : {TRUE}, sentimentScore : {-6, 0, 6}, buzzScore : {0, 50},
          newsMentions : {0, 1}] :
     (a.buzzScore = 50 /\ a.newsMentions = 1) \/ a.sentimentScore = 6}
    \cup {NoAnalysis}

(* marketData[symbol]?.price; 0 when there is none.  From 100 to 110 is a  *)
(* return of +10%, from 110 to 100 one of about -9%.                       *)
Prices == {0, 100, 110}

(* Quotes for the sell rule: from 300 to 285 is a return of -5%.           *)
SellPrices == {100, 110, 285, 300}

(* The pairs (currentPrice, entryPrice) of these prices for which          *)
(* (currentPrice - entryPrice) / entryPrice, computed in double precision, *)
(* falls on the other side of -0.05 or 0.10 than the exact quotient:       *)
(* (2.85 - 3) / 3 gives -0.04999999999999997.                              *)
RoundedAbove == {<<285, 300>>}

(* activePositions, a Map, as the set of its entries. *)
mapHas(map, symbol) == \E e \in map : e.symbol = symbol
mapGet(map, symbol) == CHOOSE e \in map : e.symbol = symbol
mapDelete(map, symbol) == {e \in map : e.symbol # symbol}
mapSet(map, symbol, entryTime, entryPrice) ==
  mapDelete(map, symbol)
    \cup {[symbol |-> symbol, entryTime |-> entryTime, entryPrice |-> entryPrice]}

(* createSignal; active records whether the symbol was in activePositions  *)
(* when the rule that made the signal was evaluated.                       *)
createSignal(symbol, action, reason, active) ==
  [symbol |-> symbol, action |-> action, quantity |-> positionSize, reason |-> reason,
   active |-> active]

(* What a rule gives: the signal it returns, if any, and activePositions   *)
(* after it.                                                               *)
noSignal(map) == [signals |-> <<>>, activePositions |-> map]

(* The thresholds of evaluateBuySignal. *)
buyConditions(analysis, cfg) ==
  /\ analysis.sentimentScore >= cfg.sentimentThreshold
  /\ analysis.buzzScore >= buzzThreshold
  /\ analysis.newsMentions > 0

(* evaluateBuySignal without its activePositions.has check. *)
evaluateBuySignalUnchecked(map, symbol, analysis, currentPrice, cfg, time) ==
  IF buyConditions(analysis, cfg)
  THEN [signals |-> <<createSignal(symbol, "buy", "positive_sentiment_buzz",
                                   mapHas(map, symbol))>>,
        activePositions |-> mapSet(map, symbol, time, currentPrice)]
  ELSE noSignal(map)

evaluateBuySignal(map, symbol, analysis, currentPrice, cfg, time) ==
  IF mapHas(map, symbol) THEN noSignal(map)
  ELSE IF buyConditions(analysis, cfg)
  THEN [signals |-> <<createSignal(symbol, "buy", "positive_sentiment_buzz",
                                   mapHas(map, symbol))>>,
        activePositions |-> mapSet(map, symbol, time, currentPrice)]
  ELSE noSignal(map)

(* evaluateSellSignal; priceChange = (currentPrice - entryPrice) /         *)
(* entryPrice is compared with -0.05 and 0.10 after multiplying by         *)
(* 100 * entryPrice, which decides as the double arithmetic does but for   *)
(* the pairs of RoundedAbove, where priceChange comes out above -0.05.     *)
evaluateSellSignal(map, symbol, analysis, currentPrice, cfg, time) ==
  IF ~mapHas(map, symbol) THEN noSignal(map)
  ELSE
    LET position == mapGet(map, symbol)
        holdingTime == time - position.entryTime
        holdingPeriodExceeded == holdingTime >= cfg.holdingPeriod
        strongNegativeSentiment == analysis.sentimentScore <= -cfg.sentimentThreshold
        stopLoss ==
          /\ (currentPrice - position.entryPrice) * 100 <= -stopLossPct * position.entryPrice
          /\ <<currentPrice, position.entryPrice>> \notin RoundedAbove
        takeProfit ==
          (currentPrice - position.entryPrice) * 100 >= takeProfitPct * position.entryPrice
        reason == IF holdingPeriodExceeded THEN "holding_period_exceeded"
                  ELSE IF strongNegativeSentiment THEN "negative_sentiment"
                  ELSE IF stopLoss THEN "stop_loss"
                  ELSE "take_profit"
    IN IF holdingPeriodExceeded \/ strongNegativeSentiment \/ stopLoss \/ takeProfit
       THEN [signals |-> <<createSignal(symbol, "sell", reason, TRUE)>>,
             activePositions |-> mapDelete(map, symbol)]
       ELSE noSignal(map)

(* An evaluate that goes on without a price. *)
missingAnalysisOnly(symbolAnalysis, currentPrice) == ~symbolAnalysis.present

(* if (!symbolAnalysis) continue; if (!currentPrice) continue; *)
missing(symbolAnalysis, currentPrice) == ~symbolAnalysis.present \/ currentPrice = 0

(* The for loop of evaluate from the i-th symbol of the watchlist on: a    *)
(* symbol without summary or without price is skipped, else the buy rule   *)
(* and then the sell rule are evaluated.                                   *)
RECURSIVE evaluateFrom(_, _, _, _, _, _, _, _)
evaluateFrom(i, list, map, signals, summary, marketData, cfg, time) ==
  IF i > Len(list) THEN [signals |-> signals, activePositions |-> map]
  ELSE
    LET symbol == list[i]
        symbolAnalysis == summary[symbol]
        currentPrice == marketData[symbol]
    IN IF missing(symbolAnalysis, currentPrice)
       THEN evaluateFrom(i + 1, list, map, signals, summary, marketData, cfg, time)
       ELSE
         LET buySignal ==
               evaluateBuySignal(map, symbol, symbolAnalysis, currentPrice, cfg, time)
             sellSignal ==
               evaluateSellSignal(buySignal.activePositions, symbol, symbolAnalysis,
                                  currentPrice, cfg, time)
         IN evaluateFrom(i + 1, list, sellSignal.activePositions,
                         signals \o buySignal.signals \o sellSignal.signals,
                         summary, marketData, cfg, time)

(* The symbols of a list. *)
watched(list) == {list[i] : i \in 1..Len(list)}

(* The strategy after its construction with a configuration. *)
StrategyInit(configs, watchlists) ==
  /\ activePositions = {}
  /\ config \in configs
  /\ watchlist \in watchlists
  /\ now = 0
  /\ returned = <<>>

(* evaluate going through the watchlist with a snapshot. *)
evaluateWith(summary, marketData) ==
  LET result == evaluateFrom(1, watchlist, activePositions, <<>>, summary, marketData,
                             config, now)
  IN /\ returned' = result.signals
     /\ activePositions' = result.activePositions

(* The snapshots evaluate is called with.  Only what it reads differs:     *)
(* the summaries and prices of watched symbols, and of a symbol without    *)
(* summary only whether it has a price, of one without price only whether  *)
(* it has a summary.                                                       *)
readBy(list, summary, marketData) ==
  /\ \A s \in Symbols \ watched(list) : summary[s] = NoAnalysis /\ marketData[s] = 0
  /\ \A s \in Symbols : summary[s] = NoAnalysis => marketData[s] \in {0, 100}
  /\ \A s \in Symbols :
       (summary[s] # NoAnalysis /\ marketData[s] = 0) =>
         (summary[s].sentimentScore = 6 /\ summary[s].buzzScore = 50
            /\ summary[s].newsMentions = 1)

(* evaluate(marketData) called on the strategy: without data aggregator or *)
(* snapshot it returns []; else the watchlist is gone through with the     *)
(* summaries and prices of the snapshot.                                   *)
StrategyEvaluate ==
  /\ \/ returned' = <<>> /\ UNCHANGED activePositions
     \/ \E summary \in [Symbols -> Analyses] : \E marketData \in [Symbols -> Prices] :
          /\ readBy(watchlist, summary, marketData)
          /\ evaluateWith(summary, marketData)
  /\ UNCHANGED <<config, watchlist, now>>
  /\ UNCHANGED <<riskVars, riskObs, engineVars>>

(* evaluate(marketData) called with a snapshot that has a summary and a    *)
(* quote for the watched symbols, the same for each.                       *)
QuoteEvaluate ==
  /\ \E analysis \in Analyses \ {NoAnalysis} : \E currentPrice \in SellPrices :
       evaluateWith([s \in Symbols |-> IF s \in watched(watchlist) THEN analysis ELSE NoAnalysis],
                    [s \in Symbols |-> IF s \in watched(watchlist) THEN currentPrice ELSE 0])
  /\ UNCHANGED <<config, watchlist, now>>
  /\ UNCHANGED <<riskVars, riskObs, engineVars>>

(* reset() *)
StrategyReset ==
  /\ activePositions' = {}
  /\ UNCHANGED <<config, watchlist, now, returned>>
  /\ UNCHANGED <<riskVars, riskObs, engineVars>>

(* An hour passes. *)
ClockAdvance ==
  /\ now < MaxTime
  /\ now' = now + 1
  /\ UNCHANGED <<activePositions, config, watchlist, returned>>
  /\ UNCHANGED <<riskVars, riskObs, engineVars>>

(* What the engine reads of a signal made by createSignal: no             *)
(* preferredBroker, and no limitPrice for the market orders of the         *)
(* strategy.                                                               *)
signalRead(signal) ==
  [symbol |-> signal.symbol, action |-> signal.action, quantity |-> signal.quantity,
   preferredBroker |-> "", limitPrice |-> 0]

(* The signal of the list returned by evaluate that processSignals is at,  *)
(* with n signals left.                                                    *)
signalAt(n) == returned[Len(returned) - n + 1]

(* executeStrategies for the strategy: evaluate(marketData) is called, and *)
(* processSignals starts on the list it returned.                          *)
evaluateStrategy(l) ==
  /\ sigLeft[l] = 0
  /\ \/ returned' = <<>> /\ UNCHANGED activePositions
     \/ \E summary \in [Symbols -> Analyses] : \E marketData \in [Symbols -> Prices] :
          /\ readBy(watchlist, summary, marketData)
          /\ evaluateWith(summary, marketData)
  /\ sigLeft' = [sigLeft EXCEPT ![l] = Len(returned')]
  /\ UNCHANGED <<config, watchlist, now>>
  /\ UNCHANGED <<running, riskManager, orders, positions, errorListener, pc, stratIdx, issued>>
  /\ noBrokerCalls /\ noEvents /\ noRefresh /\ noReconciliation
  /\ noValidation /\ engineRiskUnchanged

(* processSignals on the list the strategy returned, one signal. *)
processReturned(l) ==
  /\ sigLeft[l] > 0
  /\ handleSignal(signalRead(signalAt(sigLeft[l])))
  /\ LET thrown == Event("order_failed", 0, "") \in emitted' IN
       sigLeft' = [sigLeft EXCEPT ![l] = signalsLeft(sigLeft[l], thrown)]
  /\ lastSweep' = {}
  /\ noRefresh /\ noReconciliation /\ strategyUnchanged
  /\ UNCHANGED <<running, riskManager, positions, errorListener, pc, stratIdx>>

(* The engine alone, started once: every configuration of listener and    *)
(* risk manager.                                                           *)
Init ==
  /\ RiskManagerInit
  /\ blacklistedSymbols = {}
  /\ EngineInit(BOOLEAN, {FALSE}, 1)
  /\ StrategyInit({defaultConfig}, {<<>>})

Next ==
  \/ setRiskManager
  \/ \E l \in Slots : start(l)
  \/ \E l \in Slots : authenticated(l)
  \/ stop
  \/ \E l \in Slots : updatePositions(l)
  \/ \E l \in Slots : evaluate(l)
  \/ \E l \in Slots : processSignal(l)
  \/ \E l \in Slots : processOrders(l)
  \/ \E l \in Slots : wake(l)
  \/ \E l \in Slots : tickError(l)

Spec == Init /\ [][Next]_vars

(* The engine as the application wires it (risk manager set, 'error'       *)
(* listener registered), with MaxStarts start() calls: restarts, and       *)
(* start() and stop() while loops of earlier runs are still pending.       *)
RestartInit ==
  /\ RiskManagerInit
  /\ blacklistedSymbols = {}
  /\ EngineInit({TRUE}, {TRUE}, MaxStarts)
  /\ StrategyInit({defaultConfig}, {<<>>})

RestartNext ==
  \/ \E l \in Slots : start(l)
  \/ \E l \in Slots : authenticated(l)
  \/ stop
  \/ \E l \in Slots : updatePositions(l)
  \/ \E l \in Slots : evaluate(l)
  \/ \E l \in Slots : processSignal(l)
  \/ \E l \in Slots : processOrders(l)
  \/ \E l \in Slots : wake(l)
  \/ \E l \in Slots : tickError(l)

RestartSpec == RestartInit /\ [][RestartNext]_vars

(* The engine as the application wires it, started once. *)
TickInit ==
  /\ RiskManagerInit
  /\ blacklistedSymbols = {}
  /\ EngineInit({TRUE}, {TRUE}, 1)
  /\ StrategyInit({defaultConfig}, {<<>>})

TickSpec == TickInit /\ [][RestartNext]_vars

(* The engine as the application wires it, started once, with callers of   *)
(* its read accessors that change what they are handed.                    *)
AccessorNext == RestartNext \/ callerPops \/ callerEdits

AccessorSpec == TickInit /\ [][AccessorNext]_vars

(* A NewsBasedStrategy that watches one symbol, evaluated by an engine     *)
(* with or without risk manager, which processes the signals it returns.   *)
StrategyLoopInit ==
  /\ RiskManagerInit
  /\ blacklistedSymbols = {}
  /\ EngineInit({TRUE}, BOOLEAN, 0)
  /\ StrategyInit(Configs, {<<s>> : s \in Symbols})

StrategyLoopNext == evaluateStrategy(1) \/ processReturned(1) \/ ClockAdvance

StrategyLoopSpec == StrategyLoopInit /\ [][StrategyLoopNext]_vars

RiskInit ==
  /\ RiskManagerInit
  /\ blacklistedSymbols \in SUBSET Symbols
  /\ EngineInit({FALSE}, {FALSE}, 0)
  /\ StrategyInit({defaultConfig}, {<<>>})

RiskNext == RiskValidate \/ RiskUpdate \/ RiskAdd \/ RiskRemove \/ DateChange

RiskSpec == RiskInit /\ [][RiskNext]_vars

(* A NewsBasedStrategy alone, in every configuration, its evaluate called  *)
(* with any snapshot.                                                      *)
StrategySpecInit ==
  /\ RiskManagerInit
  /\ blacklistedSymbols = {}
  /\ EngineInit({FALSE}, {FALSE}, 0)
  /\ StrategyInit(Configs, Watchlists)

StrategyNext == StrategyEvaluate \/ StrategyReset \/ ClockAdvance

StrategySpec == StrategySpecInit /\ [][StrategyNext]_vars

(* A NewsBasedStrategy that watches one symbol, in every configuration,    *)
(* its evaluate called with any quote of that symbol.                      *)
SellInit ==
  /\ RiskManagerInit
  /\ blacklistedSymbols = {}
  /\ EngineInit({FALSE}, {FALSE}, 0)
  /\ StrategyInit(Configs, {<<s>> : s \in Symbols})

SellNext == QuoteEvaluate \/ ClockAdvance

SellSpec == SellInit /\ [][SellNext]_vars

(* The registries the engine can hold after placing orders, each order in  *)
(* the status its broker answered.                                         *)
Registries == UNION {[ids -> [status : {"submitted", "new"}]] : ids \in SUBSET OrderIds}

(* processOrders called, any number of times, on an engine that has placed *)
(* orders, against any order history.                                      *)
ReconcileInit ==
  /\ RiskManagerInit
  /\ blacklistedSymbols = {}
  /\ running = FALSE
  /\ riskManager = TRUE
  /\ orders \in Registries
  /\ positions = [b \in BrokerNames |-> <<>>]
  /\ errorListener = TRUE
  /\ pc = [l \in Slots |-> "unused"]
  /\ stratIdx = [l \in Slots |-> 0]
  /\ sigLeft = [l \in Slots |-> 0]
  /\ issued = {<<Brokers[1], id>> : id \in DOMAIN orders}
  /\ placeGate = "none"
  /\ lastSweep = {}
  /\ lastGate = "none"
  /\ emitted = {}
  /\ fetched = {}
  /\ found = <<>>
  /\ StrategyInit({defaultConfig}, {<<>>})

ReconcileNext ==
  /\ \E history \in [DOMAIN orders -> Lookups] : reconcile(history)
  /\ UNCHANGED <<running, riskManager, positions, errorListener, pc, stratIdx, sigLeft, issued>>
  /\ noBrokerCalls /\ noRefresh
  /\ noValidation /\ engineRiskUnchanged /\ strategyUnchanged

ReconcileSpec == ReconcileInit /\ [][ReconcileNext]_vars

(***************************************************************************)
(* Properties                                                              *)
(***************************************************************************)

(* C1: no signal bypasses the Risk Gate: every placeOrder call is made for *)
(* a signal that a validateOrder call of the same tick accepted, also when *)
(* setRiskManager was never called.                                        *)
NoSignalBypassesRiskGate == placeGate \in {"none", "accepted"}

(* C2: order registry round trip: the registry holds as many orders as     *)
(* placeOrder calls have returned successfully.                            *)
RegistryRoundTrip == Cardinality(DOMAIN orders) = Cardinality(issued)

(* C3: ticks never overlap: at most one execution loop is inside a tick,   *)
(* whatever start() and stop() calls were made.                            *)
TicksNeverOverlap == Cardinality({l \in Slots : pc[l] \in TickPcs}) <= 1

(* C4: stop() waits for the tick in flight before it cancels: once stop()  *)
(* has begun its cancel sweep (which the code does in the step that clears *)
(* running) and until the engine is started again, no placeOrder call is   *)
(* made and no order is recorded.                                          *)
NoPlaceOrderAfterStop ==
  [][~running => (placeGate' = "none" /\ issued' = issued /\ DOMAIN orders' = DOMAIN orders)]_vars

(* C5: stop() calls cancelOrder for exactly the registry orders whose      *)
(* status is submitted, new or partially_filled.                           *)
StopCancelsEveryOpenOrder ==
  [][(running /\ ~running') =>
       lastSweep' = {id \in DOMAIN orders : orders[id].status \in OpenStatuses}]_vars

(* C6 as stated: start() on a running engine returns normally, without     *)
(* raising an error.                                                       *)
StartWhileRunningReturns == \A l \in Slots : pc[l] # "rejected"

(* C6 as amended: start() on a running engine raises the "already running" *)
(* error; it authenticates no broker, launches no execution loop, and      *)
(* leaves the engine running and the rest of its state as it was.          *)
StartWhileRunningThrows ==
  [][\A l \in Slots :
       (running /\ pc[l] = "idle" /\ pc'[l] # "idle") =>
         /\ pc'[l] = "rejected"
         /\ running'
         /\ \A k \in Slots \ {l} : pc'[k] = pc[k]
         /\ UNCHANGED <<riskManager, orders, positions, errorListener, stratIdx, sigLeft,
                        issued>>]_vars

StartRejected == \E l \in Slots : pc[l] = "rejected" /\ running

(* C7: no error ends the execution loop: a loop that is inside a tick      *)
(* leaves the loop only when running is false.                             *)
NoErrorEndsLoop ==
  [][\A l \in Slots : (pc[l] \in TickPcs /\ pc'[l] \notin LoopPcs) => ~running]_vars

(* C8: validateOrder returns false for an order whose symbol is in the     *)
(* blacklist, whatever its side, quantity and price, the positions and the *)
(* daily counters.                                                         *)
BlacklistedAlwaysRejected == lastValidate.blacklisted => ~lastValidate.result

BlacklistedValidated ==
  /\ lastValidate.blacklisted
  /\ lastValidate.reason = "blacklisted"
  /\ dailyPnl > -maxDailyLoss

(* C9: the daily stop is sticky: once the daily P&L has been at or below   *)
(* -maxDailyLoss since the last reset of the counters, validateOrder       *)
(* returns false.                                                          *)
DailyStopSticky == lastValidate.stopHit => ~lastValidate.result

(* C10: when reconciliation sees an order become filled or partially       *)
(* filled, updateDailyPnl is called in that tick: the trade count of the   *)
(* day goes up.                                                            *)
FillsReachRiskGate ==
  [][(\E id \in DOMAIN orders :
        /\ orders'[id].status \in {"filled", "partially_filled"}
        /\ orders'[id].status # orders[id].status)
      => dailyTrades' > tradesAfterReset]_vars

(* C11: evaluate never returns a buy signal for a symbol that was in       *)
(* activePositions when the buy rule was evaluated for it, and             *)
(* activePositions holds at most one entry per symbol.                     *)
NoBuyWhileActive ==
  /\ \A i \in 1..Len(returned) : returned[i].action = "buy" => ~returned[i].active
  /\ \A e1, e2 \in activePositions : e1.symbol = e2.symbol => e1 = e2

(* A symbol that is twice in the watchlist was bought at its first place   *)
(* and, with the same summary and price, not again at its second.          *)
SecondBuySuppressed ==
  /\ Len(watchlist) = 2 /\ watchlist[1] = watchlist[2]
  /\ Len(returned) = 1 /\ returned[1].action = "buy"
  /\ mapHas(activePositions, watchlist[1])

(* C12: in every configuration and for every snapshot, the list one        *)
(* evaluate call returns holds at most one signal per symbol.              *)
OneSignalPerSymbol ==
  \A i, j \in 1..Len(returned) : returned[i].symbol = returned[j].symbol => i = j

(* C13: terminal statuses are absorbing: reconciliation neither changes an *)
(* order that is filled, canceled or rejected nor emits order_updated for  *)
(* it, whatever the order history reports.                                 *)
TerminalStatusesAbsorbing ==
  [][\A id \in DOMAIN orders :
       orders[id].status \in TerminalStatuses =>
         /\ orders'[id] = orders[id]
         /\ Event("order_updated", id, "") \notin emitted']_vars

(* C14: reconciliation is idempotent: whatever the registry and the order  *)
(* history, processOrders run again against the history of the run before  *)
(* leaves the registry as that run left it and emits no order_updated.     *)
ReconciliationIdempotent ==
  \A history \in [DOMAIN orders -> Lookups] :
    LET once == reconciledRegistry(orders, history) IN
    /\ reconciledRegistry(once, history) = once
    /\ updatedOrders(once, history) = {}

(* A run that found every order in the status an earlier run had taken     *)
(* over from the history.                                                  *)
IdempotentRerun ==
  /\ DOMAIN found = DOMAIN orders
  /\ \A id \in DOMAIN orders : found[id] = orders[id].status
  /\ \E id \in DOMAIN orders : orders[id].status = "filled"
  /\ emitted = {}

(* C15: an order the order history lacks is left as it is by               *)
(* reconciliation, and no event is emitted for it.                         *)
AbsentOrderUnchanged ==
  [][\A id \in DOMAIN found' :
       found'[id] = "absent" =>
         /\ orders'[id] = orders[id]
         /\ Event("order_updated", id, "") \notin emitted']_vars

(* A run that updated one order and did not find another. *)
AbsentOrderSkipped ==
  \E id, other \in DOMAIN found :
    /\ found[id] = "absent"
    /\ orders[id].status \in OpenStatuses
    /\ Event("order_updated", other, "") \in emitted

(* C16: recording an order under an id the registry already holds fails    *)
(* and leaves the entry as it is: a step that calls placeOrder overwrites  *)
(* no entry of the registry.                                               *)
NoSilentOverwrite ==
  [][placeGate' # "none" => \A id \in DOMAIN orders : orders'[id] = orders[id]]_vars

(* C17: when getPositions throws for a broker, the positions stored for it *)
(* stay, every other broker is asked and refreshed in the same run of      *)
(* updatePositions, and the tick goes on to the strategies.                *)
FailedRefreshKeepsSnapshot ==
  [][\A f \in fetched' :
       ~f.ok =>
         /\ positions'[f.broker] = positions[f.broker]
         /\ {g.broker : g \in fetched'} = BrokerNames
         /\ \A g \in fetched' : g.ok => positions'[g.broker] = g.positions
         /\ \E l \in Slots : pc[l] = "updatePositions" /\ pc'[l] = "evaluate"]_vars

(* One broker failed and still has its positions, another was refreshed,   *)
(* and the tick is at its strategies.                                      *)
StaleSnapshotKept ==
  \E f, g \in fetched :
    /\ ~f.ok /\ positions[f.broker] # <<>>
    /\ g.ok /\ g.broker # f.broker /\ positions[g.broker] = g.positions
    /\ \E l \in Slots : pc[l] = "evaluate" /\ stratIdx[l] = 1

(* C18: a successful refresh puts exactly the returned list in the place   *)
(* of the positions stored for that broker, and the positions stored for a *)
(* broker change only by a refresh of that broker.                         *)
SuccessfulRefreshReplaces ==
  [][\A b \in BrokerNames :
       /\ \A f \in fetched' : (f.broker = b /\ f.ok) => positions'[b] = f.positions
       /\ (\A f \in fetched' : f.broker = b => ~f.ok) => positions'[b] = positions[b]]_vars

(* A broker returned a list and exactly that list is stored for it, while  *)
(* another broker, which failed, has what was stored for it.               *)
SnapshotReplaced ==
  \E f, g \in fetched :
    /\ f.ok /\ f.positions # <<>> /\ positions[f.broker] = f.positions
    /\ ~g.ok /\ g.broker # f.broker

(* C19: when evaluate (or the processing of its signals) throws for a      *)
(* strategy, strategy_error is emitted with the name of that strategy and  *)
(* the tick goes on with the next strategy, or with reconciliation after   *)
(* the last one.                                                           *)
StrategyFailureIsolated ==
  [][\A e \in emitted' :
       e.event = "strategy_error" =>
         \E l \in Slots :
           /\ pc[l] = "evaluate"
           /\ stratIdx[l] \in 1..Len(Strategies)
           /\ e.name = Strategies[stratIdx[l]]
           /\ IF stratIdx[l] < Len(Strategies)
              THEN pc'[l] = "evaluate" /\ stratIdx'[l] = stratIdx[l] + 1
              ELSE pc'[l] = "processOrders"]_vars

(* The first strategy threw and the second is about to be evaluated. *)
NextStrategyAfterError ==
  \E l \in Slots :
    /\ Event("strategy_error", 0, Strategies[1]) \in emitted
    /\ pc[l] = "evaluate"
    /\ stratIdx[l] = 2

(* C20: when placeOrder throws for a signal, nothing is recorded for it,   *)
(* it is not tried again, and the signals after it in the list are still   *)
(* processed.                                                              *)
PlaceOrderFailureIsolated ==
  [][Event("order_failed", 0, "") \in emitted' =>
       /\ orders' = orders
       /\ issued' = issued
       /\ \E l \in Slots :
            /\ pc[l] = "processSignals"
            /\ sigLeft'[l] = sigLeft[l] - 1
            /\ sigLeft[l] > 1 => pc'[l] = "processSignals"]_vars

(* placeOrder threw for a signal and the next signal of the list is still  *)
(* to be processed.                                                        *)
NextSignalAfterFailure ==
  /\ Event("order_failed", 0, "") \in emitted
  /\ \E l \in Slots : pc[l] = "processSignals" /\ sigLeft[l] = 1

(* C21: a tick goes through its phases in a fixed order, and no signal is   *)
(* submitted to a broker before every enabled strategy has been evaluated  *)
(* in that tick: a strategy is never evaluated (here: returning signals)   *)
(* right after a placeOrder call.                                          *)
EvaluationBeforeSubmission ==
  [][\A l \in Slots :
       (pc[l] = "evaluate" /\ pc'[l] = "processSignals") => placeGate = "none"]_vars

(* C22: validateOrder accepts an order exactly when none of its six checks *)
(* fails, and the reason of a rejection is that of the first failing check *)
(* in the order blacklist, daily loss, position size, open positions (buys *)
(* only), portfolio risk (skipped when the portfolio is worth nothing),    *)
(* concentration.                                                          *)
ChecksInOrder ==
  \A order \in RiskOrders : \A positionsMap \in PositionMaps :
    LET allPositions == flattenPositions(positionsMap)
        notional == order.qty * (IF order.limitPrice = 0 THEN defaultPrice ELSE order.limitPrice)
        total == SumValues(allPositions)
        held == SumValues(SelectSeq2(allPositions, order.symbol))
        failing ==
          {i \in 1..6 :
             CASE i = 1 -> order.symbol \in blacklistedSymbols
               [] i = 2 -> pnlAfterReset <= -maxDailyLoss
               [] i = 3 -> notional > maxPositionSize
               [] i = 4 -> order.side = "buy" /\ Len(allPositions) >= maxOpenPositions
               [] i = 5 -> total # 0 /\ notional * 100 > maxPortfolioRiskPct * total
               [] i = 6 -> held + notional > maxPositionSize}
        reasons == <<"blacklisted", "daily_loss", "position_size", "open_positions",
                     "portfolio_risk", "concentration">>
        reason == validateOrderReason(order, positionsMap, blacklistedSymbols, pnlAfterReset)
    IN /\ validateOrder(order, positionsMap) <=> failing = {}
       /\ \A i \in failing : (\A j \in failing : i <= j) => reason = reasons[i]

(* An order passed the first five checks and the last one rejected it. *)
LastCheckRejects == ~lastValidate.result /\ lastValidate.reason = "concentration"

(* C24: with no open position, a symbol that is not blacklisted and a      *)
(* daily P&L above the daily stop, an order whose notional equals          *)
(* maxPositionSize is accepted and one whose notional exceeds it is        *)
(* rejected by the position-size check.                                    *)
PositionSizeBoundary ==
  \A order \in RiskOrders :
    LET noPositions == [b \in BrokerNames |-> <<>>]
        notional == order.qty * (IF order.limitPrice = 0 THEN defaultPrice ELSE order.limitPrice)
    IN (order.symbol \notin blacklistedSymbols /\ pnlAfterReset > -maxDailyLoss) =>
         /\ notional = maxPositionSize => validateOrder(order, noPositions)
         /\ notional > maxPositionSize =>
              validateOrderReason(order, noPositions, blacklistedSymbols, pnlAfterReset)
                = "position_size"

(* An order passed the blacklist and the daily stop and was rejected for   *)
(* its size.                                                               *)
OversizedOrderRejected == ~lastValidate.result /\ lastValidate.reason = "position_size"

(* C25: the daily counters are reset lazily, by the first validateOrder or *)
(* updateDailyPnl call on a date that differs from the last reset date:    *)
(* they are 0 before the check or update of that call; a call on the date  *)
(* of the last reset does not reset them.                                  *)
LazyDailyReset ==
  [][(/\ today' = today
      /\ blacklistedSymbols' = blacklistedSymbols
      /\ <<dailyPnl, dailyTrades, lastResetDate, lastValidate>>'
           # <<dailyPnl, dailyTrades, lastResetDate, lastValidate>>) =>
       IF lastResetDate # today
       THEN /\ lastResetDate' = today
            /\ \/ /\ dailyPnl' = 0
                  /\ dailyTrades' = 0
                  /\ lastValidate'.reason # "daily_loss"
               \/ /\ dailyTrades' = 1
                  /\ dailyPnl' \in PnlAmounts
       ELSE /\ lastResetDate' = lastResetDate
            /\ \/ dailyPnl' = dailyPnl /\ dailyTrades' = dailyTrades
               \/ dailyTrades' = dailyTrades + 1 /\ dailyPnl' - dailyPnl \in PnlAmounts]_vars

(* A validateOrder call was the first call of a new date: it reset the     *)
(* counters and accepted its order.                                        *)
ResetByValidation ==
  /\ today > 1
  /\ lastResetDate = today
  /\ dailyTrades = 0
  /\ lastValidate.result

(* C26: the open-position limit applies to buys only: a buy is rejected    *)
(* whenever the open positions of all brokers together number              *)
(* maxOpenPositions or more, and no sell is rejected by this check.        *)
OpenPositionLimitBuysOnly ==
  \A order \in RiskOrders : \A positionsMap \in PositionMaps :
    LET reason == validateOrderReason(order, positionsMap, blacklistedSymbols, pnlAfterReset)
    IN /\ (order.side = "buy" /\ Len(flattenPositions(positionsMap)) >= maxOpenPositions) =>
            reason # ""
       /\ order.side = "sell" => reason # "open_positions"

(* A buy passed the first three checks and was rejected for the number of  *)
(* open positions.                                                         *)
BuyRejectedAtLimit == ~lastValidate.result /\ lastValidate.reason = "open_positions"

(* C23: the notional the Risk Gate checks is the quantity times the        *)
(* explicit price of the order where it has one, also on the validation    *)
(* path of the engine: a signal with a limit price is accepted exactly     *)
(* when validateOrder accepts an order of its quantity at that price.      *)
GateJudgesLimitPrice ==
  \A signal \in Signals :
    (wellFormed(signal) /\ riskManager) =>
      (validateSignal(signal) = "accepted"
         <=> validateOrder([symbol |-> signal.symbol, qty |-> signal.quantity,
                            side |-> signal.action, limitPrice |-> signal.limitPrice],
                           positions))

(* C30: a signal the Risk Gate rejects is dropped: placeOrder is not       *)
(* called for it, nothing is recorded or emitted for it, and               *)
(* processSignals goes on with the signals after it; the engine keeps no   *)
(* rejected signal that a later step could validate or submit again.       *)
RejectedSignalDropped ==
  [][lastGate' = "rejected" =>
       /\ placeGate' = "none"
       /\ orders' = orders
       /\ issued' = issued
       /\ emitted' = {}
       /\ \E l \in Slots :
            /\ pc[l] = "processSignals"
            /\ sigLeft'[l] = sigLeft[l] - 1]_vars

(* The Risk Gate rejected the first of two signals and the second is still *)
(* to be processed.                                                        *)
NextSignalAfterRejection ==
  /\ lastGate = "rejected"
  /\ \E l \in Slots : pc[l] = "processSignals" /\ sigLeft[l] = 1

(* C27: for a watched symbol with a summary and a price, evaluate emits a  *)
(* buy signal exactly when the symbol is flat and the sentiment score is   *)
(* at least sentimentThreshold, the buzz score at least buzzThreshold and  *)
(* the number of news mentions positive; the quantity of the signal is     *)
(* positionSize, and after the call the symbol is active with the current  *)
(* price as its entry price.                                               *)
BuyRuleExact ==
  \A summary \in [Symbols -> Analyses] : \A marketData \in [Symbols -> Prices] :
    readBy(watchlist, summary, marketData) =>
      LET result == evaluateFrom(1, watchlist, activePositions, <<>>, summary, marketData,
                                 config, now)
          buys(s) == {i \in 1..Len(result.signals) :
                        result.signals[i].symbol = s /\ result.signals[i].action = "buy"}
      IN \A s \in watched(watchlist) :
           (summary[s].present /\ marketData[s] # 0) =>
             /\ buys(s) # {} <=>
                  (~mapHas(activePositions, s) /\ buyConditions(summary[s], config))
             /\ \A i \in buys(s) : result.signals[i].quantity = positionSize
             /\ buys(s) # {} =>
                  /\ mapHas(result.activePositions, s)
                  /\ mapGet(result.activePositions, s).entryPrice = marketData[s]

(* C28: for an active symbol, the sell rule emits a sell signal exactly    *)
(* when the holding time is at least holdingPeriod, or the sentiment score *)
(* at most -sentimentThreshold, or the return since entry at most -5%, or  *)
(* at least +10%; the reason is the first of these that holds, and the     *)
(* symbol is flat afterwards.  A return of exactly -5% with no earlier     *)
(* condition true gives stop_loss.                                         *)
SellRuleExact ==
  \A entry \in activePositions :
    \A analysis \in Analyses \ {NoAnalysis} : \A currentPrice \in SellPrices :
      LET result == evaluateSellSignal(activePositions, entry.symbol, analysis, currentPrice,
                                       config, now)
          gain == (currentPrice - entry.entryPrice) * 100
          expected ==
            IF now - entry.entryTime >= config.holdingPeriod THEN "holding_period_exceeded"
            ELSE IF analysis.sentimentScore <= -config.sentimentThreshold
              THEN "negative_sentiment"
            ELSE IF gain <= -stopLossPct * entry.entryPrice THEN "stop_loss"
            ELSE IF gain >= takeProfitPct * entry.entryPrice THEN "take_profit"
            ELSE ""
      IN IF expected = "" THEN result.signals = <<>>
         ELSE /\ Len(result.signals) = 1
              /\ result.signals[1].action = "sell"
              /\ result.signals[1].symbol = entry.symbol
              /\ result.signals[1].reason = expected
              /\ ~mapHas(result.activePositions, entry.symbol)

(* C29: the signals a strategy returns for a symbol, over any sequence of  *)
(* evaluate and reset calls, alternate buy, sell, buy, ..., starting with  *)
(* a buy: when the last signal of an evaluate call for a symbol was a buy, *)
(* the next signals returned do not make that symbol go from flat to       *)
(* active, which takes another buy.                                        *)
SignalsAlternate ==
  [][\A s \in Symbols :
       LET last == {i \in 1..Len(returned) :
                      /\ returned[i].symbol = s
                      /\ \A j \in (i + 1)..Len(returned) : returned[j].symbol # s}
       IN (~mapHas(activePositions, s) /\ mapHas(activePositions', s)) =>
            \A i \in last : returned[i].action # "buy"]_vars

(* C31: a malformed signal (no symbol, action or quantity) is dropped by   *)
(* validateSignal: the Risk Gate is not called for it, no broker is        *)
(* called, nothing is recorded or emitted, no error leaves the tick, and   *)
(* processSignals goes on with the signals after it.                       *)
MalformedSignalDropped ==
  [][lastGate' = "invalid" =>
       /\ UNCHANGED <<riskVars, riskObs>>
       /\ placeGate' = "none"
       /\ lastSweep' = {}
       /\ orders' = orders
       /\ issued' = issued
       /\ emitted' = {}
       /\ \E l \in Slots :
            /\ pc[l] = "processSignals"
            /\ sigLeft'[l] = sigLeft[l] - 1
            /\ pc'[l] \notin {"crashed", "done"}
            /\ sigLeft[l] > 1 => pc'[l] = "processSignals"]_vars

(* A malformed signal was the first of two and the second is still to be   *)
(* processed.                                                              *)
NextSignalAfterMalformed ==
  /\ lastGate = "invalid"
  /\ \E l \in Slots : pc[l] = "processSignals" /\ sigLeft[l] = 1

(* C32: getPositions and getOrders return copies: what a caller does to    *)
(* the collection it got, or to its elements, never changes the stored     *)
(* positions or orders, which change only in a refresh, when an order is   *)
(* placed and in a reconciliation.                                         *)
AccessorsReturnCopies ==
  [][/\ positions' # positions => fetched' # {}
     /\ orders' # orders => (placeGate' # "none" \/ found' # <<>>)]_vars

(* C33: when start() fails because the authentication of a broker throws,  *)
(* the engine is left stopped: running is false, so that a later start()   *)
(* is not turned away as a start of a running engine.                      *)
FailedStartLeavesStopped ==
  [][\A l \in Slots : (pc[l] = "auth" /\ pc'[l] = "failed") => ~running']_vars

(* C36: a loop never goes from a tick to the start of its next tick        *)
(* without the sleep between them, also when the tick ended with an error  *)
(* caught by the catch of the loop.                                        *)
SleepBetweenTicks ==
  [][\A l \in Slots :
       (pc[l] \in TickPcs /\ Event("error", 0, "") \in emitted')
         => pc'[l] # "updatePositions"]_vars

(* C38: every signal handed to executeSignal gets exactly one of           *)
(* order_placed and order_failed: order_placed when placeOrder succeeded,  *)
(* for an order that is in the registry by then, order_failed when it      *)
(* threw, nothing being recorded; and neither event is emitted for         *)
(* anything else.                                                          *)
OneOutcomePerSignal ==
  [][/\ placeGate' # "none" =>
          \/ /\ emitted' = {Event("order_failed", 0, "")}
             /\ orders' = orders
             /\ issued' = issued
          \/ \E id \in DOMAIN orders' :
               /\ emitted' = {Event("order_placed", id, "")}
               /\ Cardinality(issued') = Cardinality(issued) + 1
     /\ \A e \in emitted' :
          e.event \in {"order_placed", "order_failed"} => placeGate' # "none"]_vars

OrderPlacedRecorded ==
  /\ placeGate # "none"
  /\ \E id \in DOMAIN orders : emitted = {Event("order_placed", id, "")}

(* C34: the cap on a symbol holds over a tick: what is held of the symbol  *)
(* plus the notional of all the buy orders for it that the Risk Gate       *)
(* accepts out of the signals of one processSignals run never exceeds      *)
(* maxPositionSize.                                                        *)
CapHoldsWithinTick ==
  \A l \in Slots :
    pc[l] = "processSignals" =>
      \A signals \in [1..sigLeft[l] -> Signals] : \A symbol \in Symbols :
        SumValues(SelectSeq2(flattenPositions(positions), symbol))
          + acceptedNotional(signals, symbol) <= maxPositionSize

(* C37: evaluate gives no signal for a watched symbol that has no summary  *)
(* or no price in the snapshot, and leaves what the strategy has recorded  *)
(* for that symbol as it was; with no summary at all it returns no signal  *)
(* and changes nothing.                                                    *)
MissingDataSkipped ==
  \A summary \in [Symbols -> Analyses] : \A marketData \in [Symbols -> Prices] :
    (/\ \E s \in Symbols : summary[s] = NoAnalysis \/ marketData[s] = 0
     /\ readBy(watchlist, summary, marketData)) =>
      \A result \in {evaluateFrom(1, watchlist, activePositions, <<>>, summary, marketData,
                                  config, now)} :
        /\ \A s \in Symbols :
             (summary[s] = NoAnalysis \/ marketData[s] = 0) =>
               /\ \A i \in 1..Len(result.signals) : result.signals[i].symbol # s
               /\ {e \in result.activePositions : e.symbol = s}
                    = {e \in activePositions : e.symbol = s}
        /\ (\A s \in Symbols : summary[s] = NoAnalysis) =>
             result = [signals |-> <<>>, activePositions |-> activePositions]

HeldThroughEmptyEvaluation ==
  /\ returned = <<>>
  /\ activePositions # {}
  /\ watchlist # <<>>

(* C35: a symbol is active in the strategy only if its buy signal passed   *)
(* the Risk Gate and was accepted by a broker: once the engine has dropped *)
(* a buy signal, rejected by the Risk Gate or failed at the broker, the    *)
(* symbol is not active, so that no sell signal for it can follow.         *)
ActiveOnlyAfterOrder ==
  [][\A l \in Slots :
       (/\ sigLeft[l] > 0
        /\ sigLeft'[l] < sigLeft[l]
        /\ signalAt(sigLeft[l]).action = "buy"
        /\ (lastGate' = "rejected" \/ Event("order_failed", 0, "") \in emitted'))
         => ~mapHas(activePositions', signalAt(sigLeft[l]).symbol)]_vars

====
